---- MODULE Spec2Model ----
(***************************************************************************)
(* The zoo of src/main.py: Animal and Employee objects on a heap, the Zoo  *)
(* aggregate that holds references to them, and the JSON codec             *)
(* (save_to_file / load_from_file) over one file of the file system.       *)
(***************************************************************************)
EXTENDS Integers, Sequences, FiniteSets, TLC

VARIABLES
    heap,        \* the Animal objects constructed so far; an index is a reference
    staff,       \* the Employee objects constructed so far; an index is a reference
    zoo,         \* the caller's Zoo: name, founded_date, animals, employees
    loaded_zoo,  \* <<>> or <<z>>: the Zoo the last successful load returned
    file,        \* the content of the file the codec writes and reads
    leaked,      \* TRUE while a file object opened by save_to_file is still open
    history,     \* what the claims need of the past (see NoHistory)
    treatment,   \* the animal under observation: its first health, its heal calls
    calls,       \* the number of calls made so far
    last         \* the last call: its arguments, its result and its exit path

vars == <<heap, staff, zoo, loaded_zoo, file, leaked, history, treatment, calls, last>>

\* ------------------------------------------------------------------ bounds

MaxCalls == 5        \* calls in one run of the whole program (Spec)
MaxObjects == 2      \* Animal objects the caller constructs (Spec)
MaxStaff == 2        \* Employee objects the caller constructs (Spec)
MaxLen == 2          \* add_animal / add_employee calls on one Zoo (Spec)
MaxHeap == 3         \* objects of one kind on the heap, loaded ones included (Spec)
MaxHunger == 3       \* eat with a negative amount is not taken beyond this hunger
MaxHeals == 6        \* heal_animal calls counted per animal; the count saturates
MaxEntries == 3      \* add_animal / add_employee calls on one Zoo (SpecZoo)
MaxRecords == 2      \* entries of a collection saved or loaded (SpecCodec)

\* ------------------------------------------------------------------ helpers

Max(a, b) == IF a >= b THEN a ELSE b
Min(a, b) == IF a <= b THEN a ELSE b

RECURSIVE Join(_)
\* "\n".join(lines)
Join(lines) ==
    IF Len(lines) = 0 THEN ""
    ELSE IF Len(lines) = 1 THEN lines[1]
    ELSE lines[1] \o "\n" \o Join(Tail(lines))

\* ------------------------------------------------------------------ inputs

\* A value json cannot serialize (decimal.Decimal), passed where a float is expected.
Decimal == "Decimal('2.1')"

BirdArgs == {<<"Eddie", 5, "Eagle", "2.1">>, <<"Eddie", 5, "Eagle", Decimal>>}
MammalArgs == {<<"Leo", 8, "Lion", "golden">>}
ReptileArgs == {<<"Sid", 3, "Python", FALSE>>}
ZooKeeperArgs == {<<"John", "ZK001", "Large mammals">>}
VeterinarianArgs == {<<"Dr. Smith", "VET001", "Avian medicine">>}
FoodAmounts == {-2, 0, 1, 30}
ZooNames == {"Central Zoo"}
Dates == {"2024-05-01", "2026-11-04"}   \* what datetime.now() may format to

\* ------------------------------------------------------------------ Animal

AnimalInit(cls, name, age, species) ==
    [cls |-> cls, name |-> name, age |-> age, species |-> species,
     health |-> 100, hunger |-> 0]

Bird(name, age, species, wingspan) ==
    AnimalInit("Bird", name, age, species) @@ ("wingspan" :> wingspan)

Mammal(name, age, species, fur_color) ==
    AnimalInit("Mammal", name, age, species) @@ ("fur_color" :> fur_color)

Reptile(name, age, species, is_venomous) ==
    AnimalInit("Reptile", name, age, species) @@ ("is_venomous" :> is_venomous)

make_sound(a) ==
    CASE a.cls = "Bird" -> a.name \o " chirps: Tweet tweet!"
      [] a.cls = "Mammal" -> a.name \o " roars: Roar!"
      [] a.cls = "Reptile" -> a.name \o " hisses: Hiss!"

eat_unclamped(a, food_amount) == [a EXCEPT !.hunger = a.hunger - food_amount]

\* The receiver after eat(food_amount).
eat(a, food_amount) == [a EXCEPT !.hunger = Max(0, a.hunger - food_amount)]

\* What eat returns, given the receiver after the assignment.
eat_result(a) == a.name \o " has eaten. Hunger level: " \o ToString(a.hunger)

VariantKey(cls) ==
    CASE cls = "Bird" -> "wingspan"
      [] cls = "Mammal" -> "fur_color"
      [] cls = "Reptile" -> "is_venomous"

animal_to_dict(a) ==
    [type |-> a.cls, name |-> a.name, age |-> a.age, species |-> a.species,
     health |-> a.health, hunger |-> a.hunger]
        @@ (VariantKey(a.cls) :> a[VariantKey(a.cls)])

\* ------------------------------------------------------------------ Employee

EmployeeInit(cls, name, id_number, specialization) ==
    [cls |-> cls, name |-> name, id_number |-> id_number,
     specialization |-> specialization]

ZooKeeper(name, id_number, specialization) ==
    EmployeeInit("ZooKeeper", name, id_number, specialization)

Veterinarian(name, id_number, specialization) ==
    EmployeeInit("Veterinarian", name, id_number, specialization)

employee_to_dict(e) ==
    [type |-> e.cls, name |-> e.name, id_number |-> e.id_number,
     specialization |-> e.specialization]

\* What feed_animal returns, given the keeper and the animal after animal.eat.
feed_animal_result(keeper, a) ==
    "Zookeeper " \o keeper.name \o " fed " \o a.name \o ". " \o eat_result(a)

heal_animal_uncapped(a) ==
    IF a.health < 100 THEN [a EXCEPT !.health = a.health + 20] ELSE a

heal_animal_slow(a) ==
    IF a.health < 100 THEN [a EXCEPT !.health = Min(100, a.health + 10)] ELSE a

\* The animal after heal_animal(animal).
heal_animal(a) ==
    IF a.health < 100 THEN [a EXCEPT !.health = Min(100, a.health + 20)] ELSE a

\* What heal_animal returns, given the animal before and after the call.
heal_animal_result(vet, before, after) ==
    IF before.health < 100
    THEN "Veterinarian " \o vet.name \o " treated " \o after.name
             \o ". Health now: " \o ToString(after.health)
    ELSE before.name \o " is already healthy"

\* ------------------------------------------------------------------ Zoo

ZooInit(name, today) ==
    [name |-> name, animals |-> <<>>, employees |-> <<>>, founded_date |-> today]

add_animal_front(z, animal) == [z EXCEPT !.animals = <<animal>> \o @]

add_animal(z, animal) == [z EXCEPT !.animals = Append(@, animal)]

add_employee(z, employee) == [z EXCEPT !.employees = Append(@, employee)]

list_animals(z, h) ==
    Join([i \in 1..Len(z.animals) |->
            h[z.animals[i]].species \o " " \o h[z.animals[i]].name])

list_employees(z, s) ==
    Join([i \in 1..Len(z.employees) |->
            s[z.employees[i]].cls \o " " \o s[z.employees[i]].name])

animal_sounds(z, h) ==
    Join([i \in 1..Len(z.animals) |-> make_sound(h[z.animals[i]])])

\* ------------------------------------------------------------------ JSON

\* json.dump's encoding of one attribute value. The Python type of the value is
\* the one the constructors' callers pass: str, int, float (by its repr), bool.
JsonToken(k, v) ==
    CASE k \in {"age", "health", "hunger"} -> <<"number", v>>
      [] k = "wingspan" -> <<"number", v>>
      [] k = "is_venomous" -> IF v THEN <<"true">> ELSE <<"false">>
      [] OTHER -> <<"string", v>>

\* json.load's decoding of one token.
JsonValue(tok) ==
    IF tok[1] \in {"string", "number"} THEN tok[2] ELSE tok[1] = "true"

Serializable(d) == \A k \in DOMAIN d : ~(k = "wingspan" /\ d[k] = Decimal)

JsonObject(d) == [k \in DOMAIN d |-> JsonToken(k, d[k])]

Missing == [kind |-> "missing"]       \* no such file
Denied == [kind |-> "denied"]         \* the file cannot be opened
Truncated == [kind |-> "truncated"]   \* empty, or a prefix of a document

Outcome(raised, f, open) == [raised |-> raised, file |-> f, leaked |-> open]

\* save_to_file: the exit path, the file afterwards, and whether the file object
\* the call opened is still open when control is back in the caller. open(.., 'w')
\* truncates; json.dump streams the document to the file object, which nothing
\* closes: on a normal return its last reference is dropped with json.dump's
\* frame, on a TypeError the traceback keeps that frame, and the object, alive.
save_to_file(z, h, s, f) ==
    LET animals == [i \in 1..Len(z.animals) |-> animal_to_dict(h[z.animals[i]])]
        employees == [i \in 1..Len(z.employees) |-> employee_to_dict(s[z.employees[i]])]
    IN  IF f.kind = "denied" THEN Outcome("PermissionError", f, FALSE)
        ELSE IF \A i \in 1..Len(animals) : Serializable(animals[i])
        THEN Outcome("none",
                     [kind |-> "json",
                      data |-> [name |-> <<"string", z.name>>,
                                founded_date |-> <<"string", z.founded_date>>,
                                animals |-> [i \in 1..Len(animals) |-> JsonObject(animals[i])],
                                employees |-> [i \in 1..Len(employees) |-> JsonObject(employees[i])]]],
                     FALSE)
        ELSE Outcome("TypeError", Truncated, TRUE)

Known(d, keys) == keys \subseteq DOMAIN d

overlay_defaults(animal, d) ==
    IF Known(d, {"health", "hunger"}) THEN <<"ok", animal>> ELSE <<"KeyError">>

\* The end of one pass of the animals loop: health and hunger are set from the
\* record and the animal is added. <<"KeyError">> or <<"ok", animal>>.
overlay(animal, d) ==
    IF Known(d, {"health", "hunger"})
    THEN <<"ok", [animal EXCEPT !.health = JsonValue(d["health"]),
                                !.hunger = JsonValue(d["hunger"])]>>
    ELSE <<"KeyError">>

load_animal_strict(d) ==
    IF ~Known(d, {"type", "name", "age", "species", "health", "hunger"})
    THEN <<"KeyError">>
    ELSE IF d["type"] = <<"string", "Bird">> /\ Known(d, {"wingspan"})
    THEN overlay(Bird(JsonValue(d["name"]), JsonValue(d["age"]),
                      JsonValue(d["species"]), JsonValue(d["wingspan"])), d)
    ELSE IF d["type"] = <<"string", "Mammal">> /\ Known(d, {"fur_color"})
    THEN overlay(Mammal(JsonValue(d["name"]), JsonValue(d["age"]),
                        JsonValue(d["species"]), JsonValue(d["fur_color"])), d)
    ELSE IF d["type"] = <<"string", "Reptile">> /\ Known(d, {"is_venomous"})
    THEN overlay(Reptile(JsonValue(d["name"]), JsonValue(d["age"]),
                         JsonValue(d["species"]), JsonValue(d["is_venomous"])), d)
    ELSE <<"KeyError">>

load_animal_lenient(d) ==
    IF ~Known(d, {"type", "name", "age", "species", "health", "hunger"})
    THEN <<"skip">>
    ELSE IF d["type"] = <<"string", "Bird">> /\ Known(d, {"wingspan"})
    THEN overlay(Bird(JsonValue(d["name"]), JsonValue(d["age"]),
                      JsonValue(d["species"]), JsonValue(d["wingspan"])), d)
    ELSE IF d["type"] = <<"string", "Mammal">> /\ Known(d, {"fur_color"})
    THEN overlay(Mammal(JsonValue(d["name"]), JsonValue(d["age"]),
                        JsonValue(d["species"]), JsonValue(d["fur_color"])), d)
    ELSE IF d["type"] = <<"string", "Reptile">> /\ Known(d, {"is_venomous"})
    THEN overlay(Reptile(JsonValue(d["name"]), JsonValue(d["age"]),
                         JsonValue(d["species"]), JsonValue(d["is_venomous"])), d)
    ELSE <<"skip">>

\* One pass of the animals loop: <<"KeyError">>, <<"skip">> or <<"ok", animal>>.
load_animal(d) ==
    IF ~Known(d, {"type"}) THEN <<"KeyError">>
    ELSE IF d["type"] = <<"string", "Bird">>
    THEN IF Known(d, {"name", "age", "species", "wingspan"})
         THEN overlay(Bird(JsonValue(d["name"]), JsonValue(d["age"]),
                           JsonValue(d["species"]), JsonValue(d["wingspan"])), d)
         ELSE <<"KeyError">>
    ELSE IF d["type"] = <<"string", "Mammal">>
    THEN IF Known(d, {"name", "age", "species", "fur_color"})
         THEN overlay(Mammal(JsonValue(d["name"]), JsonValue(d["age"]),
                             JsonValue(d["species"]), JsonValue(d["fur_color"])), d)
         ELSE <<"KeyError">>
    ELSE IF d["type"] = <<"string", "Reptile">>
    THEN IF Known(d, {"name", "age", "species", "is_venomous"})
         THEN overlay(Reptile(JsonValue(d["name"]), JsonValue(d["age"]),
                              JsonValue(d["species"]), JsonValue(d["is_venomous"])), d)
         ELSE <<"KeyError">>
    ELSE <<"skip">>

\* One pass of the employees loop.
load_employee(d) ==
    IF ~Known(d, {"type"}) THEN <<"KeyError">>
    ELSE IF d["type"] = <<"string", "ZooKeeper">>
    THEN IF Known(d, {"name", "id_number", "specialization"})
         THEN <<"ok", ZooKeeper(JsonValue(d["name"]), JsonValue(d["id_number"]),
                                JsonValue(d["specialization"]))>>
         ELSE <<"KeyError">>
    ELSE IF d["type"] = <<"string", "Veterinarian">>
    THEN IF Known(d, {"name", "id_number", "specialization"})
         THEN <<"ok", Veterinarian(JsonValue(d["name"]), JsonValue(d["id_number"]),
                                   JsonValue(d["specialization"]))>>
         ELSE <<"KeyError">>
    ELSE <<"skip">>

RECURSIVE load_animals(_, _)
\* The animals loop from record i on: <<"KeyError">> or <<"ok", the animals added>>.
load_animals(recs, i) ==
    IF i > Len(recs) THEN <<"ok", <<>>>>
    ELSE LET one == load_animal(recs[i])
         IN  IF one[1] = "KeyError" THEN <<"KeyError">>
             ELSE LET rest == load_animals(recs, i + 1)
                  IN  IF rest[1] = "KeyError" THEN <<"KeyError">>
                      ELSE IF one[1] = "skip" THEN rest
                      ELSE <<"ok", <<one[2]>> \o rest[2]>>

RECURSIVE load_employees(_, _)
load_employees(recs, i) ==
    IF i > Len(recs) THEN <<"ok", <<>>>>
    ELSE LET one == load_employee(recs[i])
         IN  IF one[1] = "KeyError" THEN <<"KeyError">>
             ELSE LET rest == load_employees(recs, i + 1)
                  IN  IF rest[1] = "KeyError" THEN <<"KeyError">>
                      ELSE IF one[1] = "skip" THEN rest
                      ELSE <<"ok", <<one[2]>> \o rest[2]>>

Raised(e) == [raised |-> e]

\* load_from_file: the exception raised, or the Zoo built, with the objects it
\* constructed in place of references. The file is read inside "with": the
\* file object is closed on every exit path.
load_from_file(f, today) ==
    IF f.kind = "missing" THEN Raised("FileNotFoundError")
    ELSE IF f.kind = "denied" THEN Raised("PermissionError")
    ELSE IF f.kind = "truncated" THEN Raised("JSONDecodeError")
    ELSE LET data == f.data
         IN  IF ~Known(data, {"name", "founded_date", "animals", "employees"})
             THEN Raised("KeyError")
             ELSE LET z == [ZooInit(JsonValue(data["name"]), today)
                               EXCEPT !.founded_date = JsonValue(data["founded_date"])]
                      as == load_animals(data["animals"], 1)
                      es == load_employees(data["employees"], 1)
                  IN  IF as[1] = "KeyError" \/ es[1] = "KeyError" THEN Raised("KeyError")
                      ELSE [raised |-> "none", name |-> z.name,
                            founded_date |-> z.founded_date,
                            animals |-> as[2], employees |-> es[2]]

\* ------------------------------------------------------------------ state

\* A call: the method, the Zoo ("zoo" or "loaded_zoo") or the employee (a
\* reference) it is called on, the animal or employee passed (a reference), the
\* food amount, the hunger (eat, feed_animal) or health (heal_animal) of the
\* animal before the call, what the call returned and what it raised.
Call(op, on, by, target, amount, before, ret, raised) ==
    [op |-> op, on |-> on, by |-> by, target |-> target, amount |-> amount,
     before |-> before, ret |-> ret, raised |-> raised]

Constructed(cls, ref) == Call(cls, "", 0, ref, 0, 0, "", "none")

\* References to the objects appended to a heap of length n.
Refs(n, objs) == [i \in 1..Len(objs) |-> n + i]

OutOfRange(a) == a.health < 0 \/ a.health > 100 \/ a.hunger < 0

ZooOf(which) == IF which = "zoo" THEN zoo ELSE loaded_zoo[1]

Bound(which) == which = "zoo" \/ Len(loaded_zoo) = 1

\* animals, employees: the arguments of add_animal / add_employee on zoo, in call
\*     order;
\* foreign: a load has resolved a record with health outside 0..100 or hunger < 0.
NoHistory == [animals |-> <<>>, employees |-> <<>>, foreign |-> FALSE]

Unobserved == [born |-> 100, heals |-> 0]

\* ------------------------------------------------------------------ actions

NewBird ==
    \E a \in BirdArgs :
        /\ Len(heap) < MaxObjects
        /\ heap' = Append(heap, Bird(a[1], a[2], a[3], a[4]))
        /\ last' = Constructed("Bird", Len(heap) + 1)
        /\ UNCHANGED <<staff, zoo, loaded_zoo, file, leaked, history>>

NewMammal ==
    \E a \in MammalArgs :
        /\ Len(heap) < MaxObjects
        /\ heap' = Append(heap, Mammal(a[1], a[2], a[3], a[4]))
        /\ last' = Constructed("Mammal", Len(heap) + 1)
        /\ UNCHANGED <<staff, zoo, loaded_zoo, file, leaked, history>>

NewReptile ==
    \E a \in ReptileArgs :
        /\ Len(heap) < MaxObjects
        /\ heap' = Append(heap, Reptile(a[1], a[2], a[3], a[4]))
        /\ last' = Constructed("Reptile", Len(heap) + 1)
        /\ UNCHANGED <<staff, zoo, loaded_zoo, file, leaked, history>>

NewZooKeeper ==
    \E a \in ZooKeeperArgs :
        /\ Len(staff) < MaxStaff
        /\ staff' = Append(staff, ZooKeeper(a[1], a[2], a[3]))
        /\ last' = Constructed("ZooKeeper", Len(staff) + 1)
        /\ UNCHANGED <<heap, zoo, loaded_zoo, file, leaked, history>>

NewVeterinarian ==
    \E a \in VeterinarianArgs :
        /\ Len(staff) < MaxStaff
        /\ staff' = Append(staff, Veterinarian(a[1], a[2], a[3]))
        /\ last' = Constructed("Veterinarian", Len(staff) + 1)
        /\ UNCHANGED <<heap, zoo, loaded_zoo, file, leaked, history>>

\* animal.eat(food_amount) on the animal at reference i.
Eat(i, food_amount) ==
    /\ eat(heap[i], food_amount).hunger <= MaxHunger
    /\ heap' = [heap EXCEPT ![i] = eat(@, food_amount)]
    /\ last' = Call("eat", "", 0, i, food_amount, heap[i].hunger,
                    eat_result(heap'[i]), "none")
    /\ UNCHANGED <<staff, zoo, loaded_zoo, file, leaked, history>>

FeedAnimalChecked(k, i, food_amount) ==
    /\ staff[k].cls = "ZooKeeper"
    /\ heap' = [heap EXCEPT ![i] = IF food_amount < 0 THEN @ ELSE eat(@, food_amount)]
    /\ last' = Call("feed_animal", "", k, i, food_amount, heap[i].hunger,
                    feed_animal_result(staff[k], heap'[i]), "none")
    /\ UNCHANGED <<staff, zoo, loaded_zoo, file, leaked, history>>

\* keeper.feed_animal(animal, food_amount): the keeper at k, the animal at i.
FeedAnimal(k, i, food_amount) ==
    /\ staff[k].cls = "ZooKeeper"
    /\ eat(heap[i], food_amount).hunger <= MaxHunger
    /\ heap' = [heap EXCEPT ![i] = eat(@, food_amount)]
    /\ last' = Call("feed_animal", "", k, i, food_amount, heap[i].hunger,
                    feed_animal_result(staff[k], heap'[i]), "none")
    /\ UNCHANGED <<staff, zoo, loaded_zoo, file, leaked, history>>

\* vet.heal_animal(animal): the veterinarian at v, the animal at i.
HealAnimal(v, i) ==
    /\ staff[v].cls = "Veterinarian"
    /\ heap' = [heap EXCEPT ![i] = heal_animal(@)]
    /\ last' = Call("heal_animal", "", v, i, 0, heap[i].health,
                    heal_animal_result(staff[v], heap[i], heap'[i]), "none")
    /\ UNCHANGED <<staff, zoo, loaded_zoo, file, leaked, history>>

\* zoo.add_animal(animal), at most limit times.
AddAnimal(i, limit) ==
    /\ Len(zoo.animals) < limit
    /\ zoo' = add_animal(zoo, i)
    /\ history' = [history EXCEPT !.animals = Append(@, i)]
    /\ last' = Call("add_animal", "zoo", 0, i, 0, 0, "", "none")
    /\ UNCHANGED <<heap, staff, loaded_zoo, file, leaked>>

\* zoo.add_employee(employee), at most limit times.
AddEmployee(k, limit) ==
    /\ Len(zoo.employees) < limit
    /\ zoo' = add_employee(zoo, k)
    /\ history' = [history EXCEPT !.employees = Append(@, k)]
    /\ last' = Call("add_employee", "zoo", 0, k, 0, 0, "", "none")
    /\ UNCHANGED <<heap, staff, loaded_zoo, file, leaked>>

ListAnimals(which) ==
    /\ Bound(which)
    /\ last' = Call("list_animals", which, 0, 0, 0, 0,
                    list_animals(ZooOf(which), heap), "none")
    /\ UNCHANGED <<heap, staff, zoo, loaded_zoo, file, leaked, history>>

ListEmployees(which) ==
    /\ Bound(which)
    /\ last' = Call("list_employees", which, 0, 0, 0, 0,
                    list_employees(ZooOf(which), staff), "none")
    /\ UNCHANGED <<heap, staff, zoo, loaded_zoo, file, leaked, history>>

AnimalSounds(which) ==
    /\ Bound(which)
    /\ last' = Call("animal_sounds", which, 0, 0, 0, 0,
                    animal_sounds(ZooOf(which), heap), "none")
    /\ UNCHANGED <<heap, staff, zoo, loaded_zoo, file, leaked, history>>

\* zoo.save_to_file(filename)
SaveToFile ==
    /\ ~leaked
    /\ LET r == save_to_file(zoo, heap, staff, file)
       IN  /\ file' = r.file
           /\ leaked' = r.leaked
           /\ last' = Call("save_to_file", "zoo", 0, 0, 0, 0, "", r.raised)
    /\ UNCHANGED <<heap, staff, zoo, loaded_zoo, history>>

\* The caller is done with the TypeError of a failed save: the traceback, and
\* with it the file object, is freed, and the finalizer flushes and closes it.
ReleaseTraceback ==
    /\ leaked
    /\ leaked' = FALSE
    /\ UNCHANGED <<heap, staff, zoo, loaded_zoo, file, history, last>>

\* loaded_zoo = Zoo.load_from_file(filename), the heaps holding at most limit
\* objects of a kind.
LoadFromFile(limit) ==
    /\ ~leaked
    /\ \E today \in Dates :
        LET r == load_from_file(file, today)
        IN  IF r.raised # "none"
            THEN /\ last' = Call("load_from_file", "", 0, 0, 0, 0, "", r.raised)
                 /\ UNCHANGED <<heap, staff, loaded_zoo, history>>
            ELSE /\ Len(heap) + Len(r.animals) <= limit
                 /\ Len(staff) + Len(r.employees) <= limit
                 /\ heap' = heap \o r.animals
                 /\ staff' = staff \o r.employees
                 /\ loaded_zoo' = <<[name |-> r.name, founded_date |-> r.founded_date,
                                     animals |-> Refs(Len(heap), r.animals),
                                     employees |-> Refs(Len(staff), r.employees)]>>
                 /\ history' = [history EXCEPT !.foreign =
                                   (@ \/ \E i \in 1..Len(r.animals) : OutOfRange(r.animals[i]))]
                 /\ last' = Call("load_from_file", "", 0, 0, 0, 0, "", "none")
    /\ UNCHANGED <<zoo, file, leaked>>

\* ------------------------------------------------------------------ documents

\* Records of documents another program left in the file.
BirdRecord(health, hunger) ==
    [type |-> <<"string", "Bird">>, name |-> <<"string", "Kiwi">>,
     age |-> <<"number", 2>>, species |-> <<"string", "Parrot">>,
     health |-> <<"number", health>>, hunger |-> <<"number", hunger>>,
     wingspan |-> <<"number", "0.5">>]

MammalRecord(health, hunger) ==
    [type |-> <<"string", "Mammal">>, name |-> <<"string", "Bo">>,
     age |-> <<"number", 11>>, species |-> <<"string", "Bear">>,
     health |-> <<"number", health>>, hunger |-> <<"number", hunger>>,
     fur_color |-> <<"string", "brown">>]

ReptileRecord(health, hunger) ==
    [type |-> <<"string", "Reptile">>, name |-> <<"string", "Rex">>,
     age |-> <<"number", 40>>, species |-> <<"string", "Cobra">>,
     health |-> <<"number", health>>, hunger |-> <<"number", hunger>>,
     is_venomous |-> <<"true">>]

EmployeeRecord(tag, name) ==
    [type |-> <<"string", tag>>, name |-> <<"string", name>>,
     id_number |-> <<"string", "E7">>, specialization |-> <<"string", "Reptiles">>]

Document(animals, employees) ==
    [kind |-> "json",
     data |-> [name |-> <<"string", "Old Zoo">>,
               founded_date |-> <<"string", "1999-12-31">>,
               animals |-> animals, employees |-> employees]]

\* Well-formed documents, health and hunger any integers.
ForeignFiles ==
    {Document(<<BirdRecord(130, 0)>>, <<>>),
     Document(<<MammalRecord(-20, -1)>>, <<>>),
     Document(<<ReptileRecord(0, 2)>>, <<>>),
     Document(<<BirdRecord(90, 1)>>, <<EmployeeRecord("ZooKeeper", "Ann")>>)}

\* ------------------------------------------------------------------ the program

Init ==
    /\ heap = <<>>
    /\ staff = <<>>
    /\ \E name \in ZooNames, today \in Dates : zoo = ZooInit(name, today)
    /\ loaded_zoo = <<>>
    /\ file \in {Missing} \cup ForeignFiles
    /\ leaked = FALSE
    /\ history = NoHistory
    /\ treatment = Unobserved
    /\ calls = 0
    /\ last = Call("Zoo", "zoo", 0, 0, 0, 0, "", "none")

\* One call of the whole program: the call count is bounded, no animal is
\* under observation.
Step(call) ==
    /\ calls < MaxCalls
    /\ calls' = calls + 1
    /\ UNCHANGED treatment
    /\ call

Next ==
    \/ Step(NewBird)
    \/ Step(NewMammal)
    \/ Step(NewReptile)
    \/ Step(NewZooKeeper)
    \/ Step(NewVeterinarian)
    \/ \E i \in 1..Len(heap), n \in FoodAmounts : Step(Eat(i, n))
    \/ \E k \in 1..Len(staff), i \in 1..Len(heap), n \in FoodAmounts :
           Step(FeedAnimal(k, i, n))
    \/ \E v \in 1..Len(staff), i \in 1..Len(heap) : Step(HealAnimal(v, i))
    \/ \E i \in 1..Len(heap) : Step(AddAnimal(i, MaxLen))
    \/ \E k \in 1..Len(staff) : Step(AddEmployee(k, MaxLen))
    \/ \E which \in {"zoo", "loaded_zoo"} : Step(ListAnimals(which))
    \/ \E which \in {"zoo", "loaded_zoo"} : Step(ListEmployees(which))
    \/ \E which \in {"zoo", "loaded_zoo"} : Step(AnimalSounds(which))
    \/ Step(SaveToFile)
    \/ Step(ReleaseTraceback)
    \/ Step(LoadFromFile(MaxHeap))

Spec == Init /\ [][Next]_vars

\* ------------------------------------------------------------------ care

\* The state of main() after its add_employee calls, with a third animal left
\* out and the first animal's health as a load may have set it.
HealthValues == (0..100) \cup {-20, 130}

InitCare ==
    /\ \E h \in HealthValues :
         /\ heap = <<[Bird("Eddie", 5, "Eagle", "2.1") EXCEPT !.health = h],
                     Mammal("Leo", 8, "Lion", "golden")>>
         /\ treatment = [born |-> h, heals |-> 0]
    /\ staff = <<ZooKeeper("John", "ZK001", "Large mammals"),
                 Veterinarian("Dr. Smith", "VET001", "Avian medicine")>>
    /\ zoo = [ZooInit("Central Zoo", "2026-11-04")
                 EXCEPT !.animals = <<1, 2>>, !.employees = <<1, 2>>]
    /\ loaded_zoo = <<>>
    /\ file = Missing
    /\ leaked = FALSE
    /\ history = [animals |-> <<1, 2>>, employees |-> <<1, 2>>, foreign |-> FALSE]
    /\ calls = 0
    /\ last = Call("add_employee", "zoo", 0, 2, 0, 0, "", "none")

\* The animal under observation is the first of the heap.
Observed(i) == IF i = 1 THEN Min(treatment.heals + 1, MaxHeals) ELSE treatment.heals

NextCare ==
    \/ \E i \in 1..Len(heap), n \in FoodAmounts :
           Eat(i, n) /\ UNCHANGED <<treatment, calls>>
    \/ \E k \in 1..Len(staff), i \in 1..Len(heap), n \in FoodAmounts :
           FeedAnimal(k, i, n) /\ UNCHANGED <<treatment, calls>>
    \/ \E v \in 1..Len(staff), i \in 1..Len(heap) :
           /\ HealAnimal(v, i)
           /\ treatment' = [treatment EXCEPT !.heals = Observed(i)]
           /\ UNCHANGED calls

SpecCare == InitCare /\ [][NextCare]_vars

\* ------------------------------------------------------------------ zoo

\* The state of main() after its constructor calls: the three animals and the
\* two employees exist, the Zoo is empty.
InitZoo ==
    /\ heap = <<Bird("Eddie", 5, "Eagle", "2.1"), Mammal("Leo", 8, "Lion", "golden"),
                Reptile("Sid", 3, "Python", FALSE)>>
    /\ staff = <<ZooKeeper("John", "ZK001", "Large mammals"),
                 Veterinarian("Dr. Smith", "VET001", "Avian medicine")>>
    /\ \E name \in ZooNames, today \in Dates : zoo = ZooInit(name, today)
    /\ loaded_zoo = <<>>
    /\ file = Missing
    /\ leaked = FALSE
    /\ history = NoHistory
    /\ treatment = Unobserved
    /\ calls = 0
    /\ last = Constructed("Veterinarian", 2)

NextZoo ==
    \/ \E i \in 1..Len(heap) : AddAnimal(i, MaxEntries) /\ UNCHANGED <<treatment, calls>>
    \/ \E k \in 1..Len(staff) : AddEmployee(k, MaxEntries) /\ UNCHANGED <<treatment, calls>>
    \/ \E which \in {"zoo", "loaded_zoo"} :
           ListAnimals(which) /\ UNCHANGED <<treatment, calls>>
    \/ \E which \in {"zoo", "loaded_zoo"} :
           ListEmployees(which) /\ UNCHANGED <<treatment, calls>>
    \/ \E which \in {"zoo", "loaded_zoo"} :
           AnimalSounds(which) /\ UNCHANGED <<treatment, calls>>

SpecZoo == InitZoo /\ [][NextZoo]_vars

\* ------------------------------------------------------------------ codec

SeqsUpTo(S, n) == UNION {[1..m -> S] : m \in 0..n}

Without(d, k) == [x \in DOMAIN d \ {k} |-> d[x]]

\* health and hunger as construction, eat and heal_animal leave them.
Vitals == {<<100, 0>>, <<60, 0>>, <<0, 2>>}

CodecAnimals ==
    {[a EXCEPT !.health = v[1], !.hunger = v[2]] :
        a \in {Bird("Eddie", 5, "Eagle", "2.1"), Mammal("Leo", 8, "Lion", "golden"),
               Reptile("Sid", 3, "Python", FALSE)},
        v \in Vitals}
    \cup {Bird("Eddie", 5, "Eagle", Decimal)}

CodecStaff ==
    {ZooKeeper("John", "ZK001", "Large mammals"),
     Veterinarian("Dr. Smith", "VET001", "Avian medicine")}

ValidAnimalRecords == {BirdRecord(90, 1), MammalRecord(100, 0), ReptileRecord(0, 2)}

ValidEmployeeRecords ==
    {EmployeeRecord("ZooKeeper", "Ann"), EmployeeRecord("Veterinarian", "Dr. Wu")}

\* Valid records, records of an unknown type (with and without further
\* fields), and valid records with one field removed.
AnimalRecords ==
    ValidAnimalRecords
    \cup {[BirdRecord(100, 0) EXCEPT !["type"] = <<"string", "Fish">>],
          [type |-> <<"string", "Fish">>]}
    \cup UNION {{Without(r, k) : k \in DOMAIN r} : r \in ValidAnimalRecords}

EmployeeRecords ==
    ValidEmployeeRecords
    \cup {EmployeeRecord("Janitor", "Joe")}
    \cup UNION {{Without(r, k) : k \in DOMAIN r \ {"type"}} : r \in ValidEmployeeRecords}

CodecFiles ==
    {Missing, Denied, Truncated,
     [kind |-> "json", data |-> [name |-> <<"string", "Old Zoo">>,
                                 animals |-> <<>>, employees |-> <<>>]]}
    \cup {Document(as, es) : as \in SeqsUpTo(AnimalRecords, MaxRecords),
                             es \in {<<>>, <<EmployeeRecord("ZooKeeper", "Ann")>>}}
    \cup {Document(as, es) : as \in {<<>>, <<BirdRecord(90, 1)>>},
                             es \in SeqsUpTo(EmployeeRecords, MaxRecords)}

\* Either a Zoo the caller has populated, the file missing or not to be opened,
\* or an empty Zoo and a file another program left.
InitCodec ==
    /\ \/ /\ heap \in SeqsUpTo(CodecAnimals, MaxRecords)
          /\ staff \in SeqsUpTo(CodecStaff, MaxRecords)
          /\ \E name \in ZooNames, today \in Dates,
                as \in SeqsUpTo(1..Len(heap), MaxRecords) :
               zoo = [ZooInit(name, today)
                         EXCEPT !.animals = as, !.employees = Refs(0, staff)]
          /\ file \in {Missing, Denied}
       \/ /\ heap = <<>>
          /\ staff = <<>>
          /\ \E name \in ZooNames, today \in Dates : zoo = ZooInit(name, today)
          /\ file \in CodecFiles
    /\ loaded_zoo = <<>>
    /\ leaked = FALSE
    /\ history = [animals |-> zoo.animals, employees |-> zoo.employees,
                  foreign |-> FALSE]
    /\ treatment = Unobserved
    /\ calls = 0
    /\ last = Call("Zoo", "zoo", 0, 0, 0, 0, "", "none")

NextCodec ==
    \/ SaveToFile /\ UNCHANGED <<treatment, calls>>
    \/ ReleaseTraceback /\ UNCHANGED <<treatment, calls>>
    \/ LoadFromFile(2 * MaxRecords) /\ UNCHANGED <<treatment, calls>>

SpecCodec == InitCodec /\ [][NextCodec]_vars

\* ------------------------------------------------------------------ claims: care

\* C3: after eat(food_amount) on an animal whose hunger was h >= 0, for any
\* integer food_amount, the hunger is max(0, h - food_amount), so never below 0,
\* and the returned status string reports that new value.
C3_EatClampsHunger ==
    (last.op = "eat" /\ last.before >= 0) =>
        LET a == heap[last.target]
            expected == IF last.before - last.amount < 0 THEN 0
                        ELSE last.before - last.amount
        IN  /\ a.hunger = expected
            /\ a.hunger >= 0
            /\ last.ret = a.name \o " has eaten. Hunger level: " \o ToString(expected)

\* An eat with more food than hunger, after an eat with a negative amount had
\* raised the hunger: the floor applies.
C3_Witness ==
    /\ last.op = "eat"
    /\ last.before > 0
    /\ last.amount > last.before
    /\ heap[last.target].hunger = 0

\* What C4 says of the two cases it names: health h in [0,100) becomes
\* min(h + 20, 100) with the 'treated' status reporting it; health 100 stays 100
\* with the 'already healthy' status.
HealCases ==
    LET a == heap[last.target]
        h == last.before
    IN  /\ (0 <= h /\ h < 100) =>
                /\ a.health = (IF h + 20 > 100 THEN 100 ELSE h + 20)
                /\ last.ret = "Veterinarian " \o staff[last.by].name \o " treated "
                                  \o a.name \o ". Health now: " \o ToString(a.health)
        /\ h = 100 =>
                /\ a.health = 100
                /\ last.ret = a.name \o " is already healthy"

\* C4 as claimed: the two cases, and in no case health above 100 after the call.
C4_AsClaimed ==
    last.op = "heal_animal" => (HealCases /\ heap[last.target].health <= 100)

\* C4 as amended: the two cases, and health is above 100 after the call only if
\* it was above 100 before it, and then the call has not changed it.
C4_HealNeverRaisesAbove100 ==
    last.op = "heal_animal" =>
        /\ HealCases
        /\ last.before <= 100 => heap[last.target].health <= 100
        /\ last.before > 100 => heap[last.target].health = last.before

\* An animal loaded with health 90 has been treated (capped at 100) and is
\* healed again when healthy.
C4_Witness ==
    /\ last.op = "heal_animal"
    /\ last.before = 100
    /\ heap[last.target].name = "Kiwi"
    /\ heap[last.target].hunger = 1
    /\ last.ret = "Kiwi is already healthy"

\* C8: a step that is an eat or a feed_animal changes nothing but the hunger of
\* its target, and feed_animal(animal, n) leaves what animal.eat(n) leaves; a
\* step that is a heal_animal changes nothing but the health of its target. The
\* other fields of the target, the other animals, the employees and the Zoos
\* (name, founded_date, collections) are as before.
C8_Frame ==
    [][LET c == last'
           t == c.target
       IN  /\ c.op \in {"eat", "feed_animal"} =>
                /\ Len(heap') = Len(heap)
                /\ \A j \in 1..Len(heap) : j # t => heap'[j] = heap[j]
                /\ heap'[t] = [heap[t] EXCEPT !.hunger = heap'[t].hunger]
                /\ UNCHANGED <<staff, zoo, loaded_zoo, file, leaked>>
           /\ c.op = "feed_animal" => heap'[t] = eat(heap[t], c.amount)
           /\ c.op = "heal_animal" =>
                /\ Len(heap') = Len(heap)
                /\ \A j \in 1..Len(heap) : j # t => heap'[j] = heap[j]
                /\ heap'[t] = [heap[t] EXCEPT !.health = heap'[t].health]
                /\ UNCHANGED <<staff, zoo, loaded_zoo, file, leaked>>
      ]_vars

\* A keeper has fed the second animal a negative amount, after a treatment of
\* the first: both mutators have acted, on different animals.
C8_Witness ==
    /\ last.op = "feed_animal"
    /\ last.target = 2
    /\ last.amount < 0
    /\ heap[2].hunger > last.before
    /\ treatment.heals > 0
    /\ heap[1].health > treatment.born

\* C10: for an animal that starts with a health in 0..100, no step (heal_animal,
\* eat or feed_animal, in any interleaving) decreases its health, and from its
\* fifth heal_animal call on its health is 100.
C10_HealingConverges ==
    [][treatment.born \in 0..100 =>
          /\ heap'[1].health >= heap[1].health
          /\ treatment'.heals >= 5 => heap'[1].health = 100
      ]_vars

\* An animal that started at health 0 is at 100 right after its fifth
\* heal_animal call, with eat calls in between.
C10_Witness ==
    /\ last.op = "heal_animal"
    /\ last.target = 1
    /\ last.before = 80
    /\ treatment.born = 0
    /\ treatment.heals = 5
    /\ heap[1].health = 100
    /\ heap[1].hunger > 0

\* ------------------------------------------------------------------ claims: zoo

RECURSIVE Text(_)
\* The text of some lines: one line per entry, in the order of the entries.
Text(lines) ==
    IF Len(lines) = 0 THEN ""
    ELSE IF Len(lines) = 1 THEN lines[1]
    ELSE Text(SubSeq(lines, 1, Len(lines) - 1)) \o "\n" \o lines[Len(lines)]

AnimalLine(a) == a.species \o " " \o a.name

EmployeeLine(e) == e.cls \o " " \o e.name

SoundLine(a) ==
    a.name \o (IF a.cls = "Bird" THEN " chirps: Tweet tweet!"
               ELSE IF a.cls = "Mammal" THEN " roars: Roar!" ELSE " hisses: Hiss!")

\* C7: zoo.animals and zoo.employees are the arguments of the add_animal and
\* add_employee calls in call order (an add appends its argument and leaves the
\* earlier entries, duplicates included, in place); list_animals, list_employees
\* and animal_sounds return one line per entry in that order, whatever the
\* variants, and change nothing.
C7_Ordering ==
    [][LET c == last'
       IN  /\ zoo'.animals = history'.animals
           /\ zoo'.employees = history'.employees
           /\ c.op = "add_animal" =>
                /\ zoo'.animals = zoo.animals \o <<c.target>>
                /\ zoo'.employees = zoo.employees
           /\ c.op = "add_employee" =>
                /\ zoo'.employees = zoo.employees \o <<c.target>>
                /\ zoo'.animals = zoo.animals
           /\ c.op \in {"list_animals", "list_employees", "animal_sounds"} =>
                UNCHANGED <<zoo, heap, staff, loaded_zoo, history>>
           /\ (c.op = "list_animals" /\ c.on = "zoo") =>
                c.ret = Text([i \in 1..Len(history.animals) |->
                                 AnimalLine(heap[history.animals[i]])])
           /\ (c.op = "list_employees" /\ c.on = "zoo") =>
                c.ret = Text([i \in 1..Len(history.employees) |->
                                 EmployeeLine(staff[history.employees[i]])])
           /\ (c.op = "animal_sounds" /\ c.on = "zoo") =>
                c.ret = Text([i \in 1..Len(history.animals) |->
                                 SoundLine(heap[history.animals[i]])])
      ]_vars

\* list_animals after add_animal(snake), add_animal(eagle), add_animal(snake).
C7_Witness ==
    /\ last.op = "list_animals"
    /\ history.animals = <<3, 1, 3>>
    /\ history.employees = <<2, 1>>
    /\ last.ret = "Python Sid\nEagle Eddie\nPython Sid"

\* ------------------------------------------------------------------ claims: codec

\* The file holds the document save_to_file writes for zoo as it is now.
FileIsSavedZoo ==
    LET r == save_to_file(zoo, heap, staff, file)
    IN  r.raised = "none" /\ file = r.file

InRange(refs) ==
    \A i \in 1..Len(refs) :
        heap[refs[i]].health \in 0..100 /\ heap[refs[i]].hunger >= 0

\* C1: when load_from_file has read the document save_to_file wrote for a Zoo
\* whose animals have health in 0..100 and hunger >= 0, it returned a Zoo with
\* the same name and founded_date and with collections of the same length in
\* which the object at each position has the same class and the same value of
\* every field.
C1_RoundTrip ==
    (last.op = "load_from_file" /\ FileIsSavedZoo /\ InRange(zoo.animals)) =>
        /\ last.raised = "none"
        /\ Len(loaded_zoo) = 1
        /\ LET z == loaded_zoo[1]
           IN  /\ z.name = zoo.name
               /\ z.founded_date = zoo.founded_date
               /\ Len(z.animals) = Len(zoo.animals)
               /\ Len(z.employees) = Len(zoo.employees)
               /\ \A i \in 1..Len(zoo.animals) :
                      /\ heap[z.animals[i]].cls = heap[zoo.animals[i]].cls
                      /\ heap[z.animals[i]] = heap[zoo.animals[i]]
               /\ \A i \in 1..Len(zoo.employees) :
                      /\ staff[z.employees[i]].cls = staff[zoo.employees[i]].cls
                      /\ staff[z.employees[i]] = staff[zoo.employees[i]]

\* A Zoo of two animals of different classes, one of them hurt and hungry, and
\* of a keeper and a veterinarian has been saved and loaded.
C1_Witness ==
    /\ last.op = "load_from_file"
    /\ last.raised = "none"
    /\ FileIsSavedZoo
    /\ Len(zoo.animals) = 2
    /\ heap[zoo.animals[1]].cls = "Reptile"
    /\ heap[zoo.animals[1]].health = 0
    /\ heap[zoo.animals[1]].hunger = 2
    /\ heap[zoo.animals[2]].cls = "Bird"
    /\ Len(zoo.employees) = 2
    /\ staff[zoo.employees[1]].cls # staff[zoo.employees[2]].cls
    /\ loaded_zoo[1].animals = <<3, 4>>

AnimalKeys(tag) ==
    {"name", "age", "species", "health", "hunger"}
        \cup (IF tag = "Bird" THEN {"wingspan"}
              ELSE IF tag = "Mammal" THEN {"fur_color"} ELSE {"is_venomous"})

EmployeeKeys == {"name", "id_number", "specialization"}

Tagged(d) == "type" \in DOMAIN d

AnimalTag(d) == d["type"][2] \in {"Bird", "Mammal", "Reptile"}

EmployeeTag(d) == d["type"][2] \in {"ZooKeeper", "Veterinarian"}

ValidAnimal(d) ==
    Tagged(d) /\ AnimalTag(d) /\ AnimalKeys(d["type"][2]) \subseteq DOMAIN d

ValidEmployee(d) == Tagged(d) /\ EmployeeTag(d) /\ EmployeeKeys \subseteq DOMAIN d

\* A record of a known type without a field the type requires.
MalformedAnimal(d) ==
    Tagged(d) /\ AnimalTag(d) /\ ~(AnimalKeys(d["type"][2]) \subseteq DOMAIN d)

MalformedEmployee(d) ==
    Tagged(d) /\ EmployeeTag(d) /\ ~(EmployeeKeys \subseteq DOMAIN d)

Whole(data) == {"name", "founded_date", "animals", "employees"} \subseteq DOMAIN data

\* Every record of the document is valid or of an unknown type.
ValidButForUnknownTypes(data) ==
    /\ \A i \in 1..Len(data["animals"]) :
           LET d == data["animals"][i] IN Tagged(d) /\ (AnimalTag(d) => ValidAnimal(d))
    /\ \A i \in 1..Len(data["employees"]) :
           LET d == data["employees"][i] IN Tagged(d) /\ (EmployeeTag(d) => ValidEmployee(d))

FieldsAre(obj, d, keys) == \A k \in keys : obj[k] = JsonValue(d[k])

\* C5: a load of a document whose records are valid except that some carry an
\* unknown type succeeds, and each collection of the Zoo it returns holds exactly
\* the records of known type, in document order: its length is the number of
\* records less the number of unknown-type records, and nothing stands in for a
\* dropped record.
C5_UnknownTypesAreDropped ==
    (/\ last.op = "load_from_file"
     /\ file.kind = "json"
     /\ Whole(file.data)
     /\ ValidButForUnknownTypes(file.data)) =>
        /\ last.raised = "none"
        /\ Len(loaded_zoo) = 1
        /\ LET z == loaded_zoo[1]
               as == SelectSeq(file.data["animals"], AnimalTag)
               es == SelectSeq(file.data["employees"], EmployeeTag)
               dropped == Len(file.data["animals"]) - Len(as)
               gone == Len(file.data["employees"]) - Len(es)
           IN  /\ Len(z.animals) = Len(file.data["animals"]) - dropped
               /\ Len(z.employees) = Len(file.data["employees"]) - gone
               /\ \A i \in 1..Len(as) :
                      /\ heap[z.animals[i]].cls = as[i]["type"][2]
                      /\ FieldsAre(heap[z.animals[i]], as[i], AnimalKeys(as[i]["type"][2]))
               /\ \A i \in 1..Len(es) :
                      /\ staff[z.employees[i]].cls = es[i]["type"][2]
                      /\ FieldsAre(staff[z.employees[i]], es[i], EmployeeKeys)

\* A document of an unknown-type record followed by a valid one was loaded: the
\* Zoo holds the one animal.
C5_Witness ==
    /\ last.op = "load_from_file"
    /\ last.raised = "none"
    /\ file.kind = "json"
    /\ Whole(file.data)
    /\ Len(file.data["animals"]) = 2
    /\ ~AnimalTag(file.data["animals"][1])
    /\ ValidAnimal(file.data["animals"][2])
    /\ Len(loaded_zoo[1].animals) = 1
    /\ heap[loaded_zoo[1].animals[1]].name = "Rex"

\* The file is missing or unreadable, or a record of a known type in it lacks
\* a field its type requires.
Unloadable(f) ==
    \/ f.kind \in {"missing", "denied", "truncated"}
    \/ /\ f.kind = "json"
       /\ Whole(f.data)
       /\ \/ \E i \in 1..Len(f.data["animals"]) : MalformedAnimal(f.data["animals"][i])
          \/ \E i \in 1..Len(f.data["employees"]) : MalformedEmployee(f.data["employees"][i])

\* C6: a load_from_file of a file that is missing or unreadable, or in which a
\* record of a known type lacks a required field, wherever that record stands,
\* raises an error and returns no Zoo: loaded_zoo and the objects are as before.
C6_MalformedRecordFails ==
    [][(last'.op = "load_from_file" /\ Unloadable(file)) =>
          /\ last'.raised # "none"
          /\ UNCHANGED <<loaded_zoo, heap, staff, zoo, file>>
      ]_vars

\* A load has failed on a record without hunger that follows a valid record.
C6_Witness ==
    /\ last.op = "load_from_file"
    /\ last.raised = "KeyError"
    /\ file.kind = "json"
    /\ Whole(file.data)
    /\ Len(file.data["animals"]) = 2
    /\ ValidAnimal(file.data["animals"][1])
    /\ MalformedAnimal(file.data["animals"][2])
    /\ "hunger" \notin DOMAIN file.data["animals"][2]
    /\ loaded_zoo = <<>>
    /\ heap = <<>>

\* C9: when save_to_file or load_from_file is back in its caller, by a return or
\* by an error, the file object the call opened is closed.
C9_FileClosedOnEveryExit ==
    last.op \in {"save_to_file", "load_from_file"} => ~leaked

\* ------------------------------------------------------------------ claims: program

\* C2 as claimed: every animal has health in 0..100 and hunger >= 0, whatever
\* well-formed document load_from_file has read.
C2_AsClaimed == \A i \in 1..Len(heap) : ~OutOfRange(heap[i])

\* C2 as amended: every animal has health in 0..100 and hunger >= 0 as long as
\* no load has read a record with a health outside 0..100 or a hunger below 0.
C2_VitalsInRange == ~history.foreign => \A i \in 1..Len(heap) : ~OutOfRange(heap[i])

\* An animal fed a negative amount was added, saved and loaded: the loaded
\* animal is hungry, and in range.
C2_Witness ==
    /\ ~history.foreign
    /\ last.op = "load_from_file"
    /\ last.raised = "none"
    /\ Len(loaded_zoo) = 1
    /\ Len(loaded_zoo[1].animals) = 1
    /\ heap[loaded_zoo[1].animals[1]].hunger = 2
    /\ heap[loaded_zoo[1].animals[1]].name = "Leo"

====
